---- MODULE Spec2Model ----
(***************************************************************************)
(* Model of utils/schema-utils.js (extractSchemas, convert2V3_2,           *)
(* groupBySchema, findSimilarSchema) and of computeSizeMetrics in          *)
(* structureAndDatamodelMetrics.js.                                        *)
(*                                                                         *)
(* A JavaScript value that may be absent (undefined / null) is a sequence  *)
(* of length 0 or 1: <<>> is "absent", <<v>> is "present with value v".    *)
(***************************************************************************)
EXTENDS Integers, Sequences, FiniteSets, TLC

\* ------------------------------------------------------------------ bounds
\* the most records extractSchemas emits for a document of the model
MaxItems == 2

\* ------------------------------------------------------------ JSON schemas
\* A schema object: its type, a name standing for its properties, its free
\* text description and its optional items sub-schema.
Obj(p, d) == [type |-> "object", properties |-> p, description |-> d, items |-> <<>>]
Arr(s) == [type |-> "array", properties |-> "", description |-> "", items |-> <<s>>]
ArrNoItems == [type |-> "array", properties |-> "", description |-> "", items |-> <<>>]
Malformed == [type |-> "malformed", properties |-> "", description |-> "", items |-> <<>>]

\* content["application/json"].schema of a response / of a request body
ResBodies == {<<>>, <<Obj("A", "d0")>>, <<Arr(Obj("A", "d0"))>>, <<ArrNoItems>>,
              <<Arr(Arr(Obj("A", "d0")))>>, <<Malformed>>}
ReqBodies == {<<>>, <<Obj("A", "d1")>>}

\* ---------------------------------------------------- json-schema-compare
\* The schema with every description removed, at every nesting level
\* (the option ignore: ["description"] is handed down to nested schemas).
RECURSIVE Strip(_)
Strip(s) == [type |-> s.type, properties |-> s.properties, description |-> "",
             items |-> IF s.items = <<>> THEN <<>> ELSE <<Strip(s.items[1])>>]

\* compare(a, b, { ignore: ["description"] }): "true", "false", or "throw"
\* when the library raises on a fragment it cannot walk.
compare(a, b) ==
    IF a.type = "malformed" \/ b.type = "malformed" THEN "throw"
    ELSE IF Strip(a) = Strip(b) THEN "true" ELSE "false"

\* ------------------------------------------------------------- documents
\* the path keys a document may declare, in this order
PathNames == <<"/users", "/admins">>
CodeNum == [c \in {"200", "404"} |-> IF c = "200" THEN 200 ELSE 404]
\* the status codes of a responses map, in the order the document declares them
ResponseKeyOrders == {<<"200">>, <<"200", "404">>, <<"404", "200">>}

ResponseMaps(n) ==
    UNION { { [i \in 1..Len(ks) |-> [code |-> ks[i], schema |-> f[i]]] :
                f \in [1..Len(ks) -> ResBodies] } :
            ks \in {k \in ResponseKeyOrders : Len(k) = n} }

\* the operations that make extractSchemas emit exactly n records
OpsWith(n) ==
    IF n = 0
    THEN [method : {"get"}, responses : {<<>>}, requestBody : ReqBodies]
    ELSE [method : {"get"}, responses : {<<r>> : r \in ResponseMaps(n)},
          requestBody : ReqBodies]

Records(op) == IF op.responses = <<>> THEN 0 ELSE Len(op.responses[1])

RECURSIVE SumRecords(_)
SumRecords(ps) ==
    IF ps = <<>> THEN 0
    ELSE Records(ps[Len(ps)].methods[1]) + SumRecords(SubSeq(ps, 1, Len(ps) - 1))

\* the paths maps of n entries whose operations emit at most budget records
RECURSIVE PathMaps(_, _)
PathMaps(n, budget) ==
    IF n = 0 THEN {<<>>}
    ELSE UNION { UNION { { Append(ps, [path |-> PathNames[n], methods |-> <<op>>]) :
                            op \in OpsWith(k) } :
                         k \in 0..(IF budget - SumRecords(ps) < 2
                                   THEN budget - SumRecords(ps) ELSE 2) } :
                 ps \in PathMaps(n - 1, budget) }

Documents ==
    [openapi : BOOLEAN,
     paths : {<<>>} \cup UNION { { <<ps>> : ps \in PathMaps(n, MaxItems) } : n \in 0..Len(PathNames) }]

VARIABLES
    openAPISpec,   \* the argument of computeSizeMetrics
    pc,            \* where the run of computeSizeMetrics stands
    converter,     \* how converter.convertObj ended: "none" when it was not called
    derefApi,      \* extractSchemas' document after normalization, <<>> when undefined
    extracted,     \* what extractSchemas returned: <<>> is null
    array,         \* groupBySchema's argument
    grouped,       \* groupBySchema's group list
    pass,          \* position in the sequence of processType calls
    idx,           \* position of the for loop in the filtered list
    comparisons,   \* findSimilarSchema's array of comparison results
    finished,      \* the group indices in the order their comparisons completed
    journal,       \* what each processed occurrence ended as, in processing order
    result         \* what computeSizeMetrics resolved to, <<>> before that

vars == <<openAPISpec, pc, converter, derefApi, extracted, array, grouped, pass, idx,
          comparisons, finished, journal, result>>

Init ==
    /\ openAPISpec \in Documents
    /\ pc = "start"
    /\ converter = "none"
    /\ derefApi = <<>>
    /\ extracted = <<>>
    /\ array = <<>>
    /\ grouped = <<>>
    /\ pass = 1
    /\ idx = 1
    /\ comparisons = <<>>
    /\ finished = <<>>
    /\ journal = <<>>
    /\ result = <<>>

\* -------------------------------------------------------- convert2V3_2
\* How converter.convertObj can end: it resolves; it rejects with an error
\* whose options.openapi holds the partly converted document; it rejects with
\* an error whose options carries no openapi; it rejects with an error that
\* has no options at all.
ConverterOutcomes == {"ok", "errPartial", "errNoPartial", "errNoOptions"}

\* the OpenAPI 3 document the converter builds from api; the partly
\* converted document an error carries is marked the same way
Converted(api) == [api EXCEPT !.openapi = TRUE]

\* convert2V3_2(api) under outcome o: <<TRUE, v>> when it returns v (v = <<>>
\* is undefined), <<FALSE, <<>>>> when reading e.options.openapi throws.
convert2V3_2(api, o) ==
    CASE o = "ok" -> <<TRUE, <<Converted(api)>>>>
      [] o = "errPartial" -> <<TRUE, <<Converted(api)>>>>
      [] o = "errNoPartial" -> <<TRUE, <<>>>>
      [] o = "errNoOptions" -> <<FALSE, <<>>>>

\* ------------------------------------------------------- extractSchemas
\* the integer-like entries of a responses map, in ascending numeric order
RECURSIVE SortByCode(_)
SortByCode(responses) ==
    IF responses = <<>> THEN <<>>
    ELSE LET least == CHOOSE i \in 1..Len(responses) :
                        \A j \in 1..Len(responses) :
                            CodeNum[responses[i].code] <= CodeNum[responses[j].code]
             rest == [k \in 1..(Len(responses) - 1) |->
                        IF k < least THEN responses[k] ELSE responses[k + 1]]
         IN  <<responses[least]>> \o SortByCode(rest)

\* the entries of a responses map in the order they were declared
ObjectEntries_declared(responses) == responses

\* Object.entries of a responses map: status codes are integer-like keys,
\* which JavaScript enumerates first and in ascending numeric order whatever
\* the order of declaration; the other keys ("default", "2XX") follow in the
\* order of declaration.
ObjectEntries(responses) ==
    SortByCode(SelectSeq(responses, LAMBDA r : r.code \in DOMAIN CodeNum))
        \o SelectSeq(responses, LAMBDA r : r.code \notin DOMAIN CodeNum)

\* one record per operation, for its first status code only
MethodRecords_first(path, op) ==
    IF op.responses = <<>> THEN <<>>
    ELSE LET es == ObjectEntries(op.responses[1])
         IN  [k \in 1..(IF Len(es) > 0 THEN 1 ELSE 0) |->
                [code |-> es[k].code, path |-> path, method |-> op.method,
                 res |-> es[k].schema, req |-> op.requestBody]]

\* the records of one operation: one per status code
MethodRecords(path, op) ==
    IF op.responses = <<>> THEN <<>>
    ELSE LET es == ObjectEntries(op.responses[1])
         IN  [k \in 1..Len(es) |->
                [code |-> es[k].code, path |-> path, method |-> op.method,
                 res |-> es[k].schema, req |-> op.requestBody]]

RECURSIVE FlatMapMethods(_, _)
FlatMapMethods(path, methods) ==
    IF methods = <<>> THEN <<>>
    ELSE MethodRecords(path, Head(methods)) \o FlatMapMethods(path, Tail(methods))

RECURSIVE FlatMapPaths(_)
FlatMapPaths(paths) ==
    IF paths = <<>> THEN <<>>
    ELSE FlatMapMethods(Head(paths).path, Head(paths).methods) \o FlatMapPaths(Tail(paths))

\* The body of extractSchemas after normalization: null (<<>>) when reading
\* derefApi.paths or Object.entries of it throws, which the catch turns into
\* a null return.
Harvest(api) ==
    IF api = <<>> THEN <<>>
    ELSE IF api[1].paths = <<>> THEN <<>>
    ELSE <<[schemas |-> FlatMapPaths(api[1].paths[1]), converted |-> api[1]]>>

\* line 13: a document with the openapi marker is not converted
extractSchemas_call ==
    /\ pc = "start"
    /\ IF openAPISpec.openapi
       THEN /\ derefApi' = <<openAPISpec>>
            /\ pc' = "harvest"
       ELSE /\ derefApi' = derefApi
            /\ pc' = "convert"
    /\ UNCHANGED <<openAPISpec, converter, extracted, array, grouped, pass, idx,
                   comparisons, finished, journal, result>>

\* lines 15-16 and 134-148: the awaited converter ends
extractSchemas_convert ==
    /\ pc = "convert"
    /\ \E o \in ConverterOutcomes :
         LET r == convert2V3_2(openAPISpec, o)
         IN  /\ converter' = o
             /\ IF r[1]
                THEN /\ derefApi' = r[2]
                     /\ extracted' = extracted
                     /\ pc' = "harvest"
                ELSE /\ derefApi' = derefApi
                     /\ extracted' = <<>>
                     /\ pc' = "extracted"
    /\ UNCHANGED <<openAPISpec, array, grouped, pass, idx, comparisons, finished,
                   journal, result>>

\* lines 20-40
extractSchemas_harvest ==
    /\ pc = "harvest"
    /\ extracted' = Harvest(derefApi)
    /\ pc' = "extracted"
    /\ UNCHANGED <<openAPISpec, converter, derefApi, array, grouped, pass, idx,
                   comparisons, finished, journal, result>>

\* -------------------------------------------------------- groupBySchema
\* groupBySchema with its two processType calls exchanged
PassOrder_swapped == <<"req", "res">>

\* the processType calls of groupBySchema, in order
PassOrder == <<"res", "req">>

\* array.filter((i) => i[type]?.content?.["application/json"]?.schema),
\* as the positions of the kept items
RECURSIVE FilterFrom(_, _, _)
FilterFrom(arr, type, i) ==
    IF i > Len(arr) THEN <<>>
    ELSE (IF arr[i][type] # <<>> THEN <<i>> ELSE <<>>) \o FilterFrom(arr, type, i + 1)

Filtered(arr, type) == FilterFrom(arr, type, 1)

\* the body schema used as it is, without looking at items
currentSchema_nounwrap(item, type) == item[type][1]

\* schema.items || schema
currentSchema(item, type) ==
    IF item[type][1].items # <<>> THEN item[type][1].items[1] ELSE item[type][1]

Endpoint(item) == [method |-> item.method, path |-> item.path, code |-> item.code]

\* updateGroupedSchema without the endpoints.some(...) test
updateGroupedSchema_nodedup(group, item, type) ==
    [schema |-> group.schema,
     endpoints |-> Append(group.endpoints, Endpoint(item)),
     message_type |-> IF \E k \in 1..Len(group.message_type) : group.message_type[k] = type
                      THEN group.message_type ELSE Append(group.message_type, type)]

\* updateGroupedSchema that tags the direction but records no endpoint
updateGroupedSchema_noendpoint(group, item, type) ==
    [schema |-> group.schema,
     endpoints |-> group.endpoints,
     message_type |-> IF \E k \in 1..Len(group.message_type) : group.message_type[k] = type
                      THEN group.message_type ELSE Append(group.message_type, type)]

\* updateGroupedSchema that records the endpoint but not the direction
updateGroupedSchema_notag(group, item, type) ==
    [schema |-> group.schema,
     endpoints |-> IF \E k \in 1..Len(group.endpoints) : group.endpoints[k] = Endpoint(item)
                   THEN group.endpoints ELSE Append(group.endpoints, Endpoint(item)),
     message_type |-> group.message_type]

\* updateGroupedSchema that also takes the merged fragment as representative
updateGroupedSchema_replace(group, item, type) ==
    [schema |-> currentSchema(item, type),
     endpoints |-> IF \E k \in 1..Len(group.endpoints) : group.endpoints[k] = Endpoint(item)
                   THEN group.endpoints ELSE Append(group.endpoints, Endpoint(item)),
     message_type |-> IF \E k \in 1..Len(group.message_type) : group.message_type[k] = type
                      THEN group.message_type ELSE Append(group.message_type, type)]

updateGroupedSchema(group, item, type) ==
    LET endpoint == Endpoint(item)
        some == \E k \in 1..Len(group.endpoints) :
                    /\ group.endpoints[k].path = endpoint.path
                    /\ group.endpoints[k].method = endpoint.method
                    /\ group.endpoints[k].code = endpoint.code
        includes == \E k \in 1..Len(group.message_type) : group.message_type[k] = type
    IN  [schema |-> group.schema,
         endpoints |-> IF some THEN group.endpoints ELSE Append(group.endpoints, endpoint),
         message_type |-> IF includes THEN group.message_type
                          ELSE Append(group.message_type, type)]

\* addNewSchema that puts the new group first (unshift instead of push)
addNewSchema_front(groups, item, type) ==
    <<[schema |-> currentSchema(item, type),
       endpoints |-> <<Endpoint(item)>>,
       message_type |-> <<type>>]>> \o groups

addNewSchema(groups, item, type) ==
    Append(groups, [schema |-> currentSchema(item, type),
                    endpoints |-> <<Endpoint(item)>>,
                    message_type |-> <<type>>])

\* the result of whichever comparison settled first (a race, not an ordered find)
findSimilarSchema_race(results, order) ==
    IF order = <<>> THEN 0
    ELSE IF results[order[1]] = "true" THEN order[1] ELSE 0

\* a find that starts at the second group
findSimilarSchema_skipfirst(results, order) ==
    IF \E i \in 2..Len(results) : results[i] = "true"
    THEN CHOOSE i \in 2..Len(results) :
            /\ results[i] = "true"
            /\ \A j \in 2..(i - 1) : results[j] # "true"
    ELSE 0

\* comparisons.find(result => result !== false): the position of the first
\* settled comparison that yielded its group, 0 for undefined
findSimilarSchema(results, order) ==
    IF \E i \in 1..Len(results) : results[i] = "true"
    THEN CHOOSE i \in 1..Len(results) :
            /\ results[i] = "true"
            /\ \A j \in 1..(i - 1) : results[j] # "true"
    ELSE 0

\* a comparison that throws counted as "not equivalent"
Rejected_never(results) == FALSE

\* Promise.all rejects as soon as one comparison has thrown
Rejected(results) == \E i \in 1..Len(results) : results[i] = "throw"
Settled(results) == \A i \in 1..Len(results) : results[i] # "pending"

type == PassOrder[pass]
items == Filtered(array, type)
item == array[items[idx]]

\* lines 93-94: destructuring the result of extractSchemas, then groupBySchema
computeSizeMetrics_group ==
    /\ pc = "extracted"
    /\ IF extracted = <<>>
       THEN /\ pc' = "thrown"
            /\ array' = array
       ELSE /\ pc' = "loop"
            /\ array' = extracted[1].schemas
    /\ UNCHANGED <<openAPISpec, converter, derefApi, extracted, grouped, pass, idx,
                   comparisons, finished, journal, result>>

\* line 57: findSimilarSchema starts one comparison per existing group
processType_find ==
    /\ pc = "loop"
    /\ idx <= Len(items)
    /\ comparisons' = [i \in 1..Len(grouped) |-> "pending"]
    /\ finished' = <<>>
    /\ pc' = "compare"
    /\ UNCHANGED <<openAPISpec, converter, derefApi, extracted, array, grouped, pass,
                   idx, journal, result>>

\* line 103: one comparison settles
compare_settle(i) ==
    /\ pc = "compare"
    /\ i \in 1..Len(comparisons)
    /\ comparisons[i] = "pending"
    /\ comparisons' = [comparisons EXCEPT
                         ![i] = compare(grouped[i].schema, currentSchema(item, type))]
    /\ finished' = Append(finished, i)
    /\ UNCHANGED <<openAPISpec, pc, converter, derefApi, extracted, array, grouped,
                   pass, idx, journal, result>>

\* lines 57-66: the await of findSimilarSchema ends and the occurrence is
\* merged, added, or dropped by the catch
processType_apply ==
    /\ pc = "compare"
    /\ Settled(comparisons) \/ Rejected(comparisons)
    /\ LET similarSchema == findSimilarSchema(comparisons, finished)
       IN  IF Rejected(comparisons)
           THEN /\ grouped' = grouped
                /\ journal' = Append(journal, [type |-> type, item |-> items[idx],
                                               outcome |-> "error", group |-> 0])
           ELSE IF similarSchema # 0
           THEN /\ grouped' = [grouped EXCEPT ![similarSchema] =
                                  updateGroupedSchema(@, item, type)]
                /\ journal' = Append(journal, [type |-> type, item |-> items[idx],
                                               outcome |-> "merged",
                                               group |-> similarSchema])
           ELSE /\ grouped' = addNewSchema(grouped, item, type)
                /\ journal' = Append(journal, [type |-> type, item |-> items[idx],
                                               outcome |-> "added",
                                               group |-> Len(grouped) + 1])
    /\ idx' = idx + 1
    /\ comparisons' = <<>>
    /\ finished' = <<>>
    /\ pc' = "loop"
    /\ UNCHANGED <<openAPISpec, converter, derefApi, extracted, array, pass, result>>

\* lines 70-73: one processType call is over
processType_end ==
    /\ pc = "loop"
    /\ idx > Len(items)
    /\ IF pass < Len(PassOrder)
       THEN /\ pass' = pass + 1
            /\ idx' = 1
            /\ pc' = "loop"
       ELSE /\ pass' = pass
            /\ idx' = idx
            /\ pc' = "metrics"
    /\ UNCHANGED <<openAPISpec, converter, derefApi, extracted, array, grouped,
                   comparisons, finished, journal, result>>

\* lines 96-99: calculateSchemaSize counts the groups
computeSizeMetrics_return ==
    /\ pc = "metrics"
    /\ result' = <<[used_schemas |-> Len(grouped)]>>
    /\ pc' = "done"
    /\ UNCHANGED <<openAPISpec, converter, derefApi, extracted, array, grouped, pass,
                   idx, comparisons, finished, journal>>

Next ==
    \/ extractSchemas_call
    \/ extractSchemas_convert
    \/ extractSchemas_harvest
    \/ computeSizeMetrics_group
    \/ processType_find
    \/ \E i \in 1..Len(comparisons) : compare_settle(i)
    \/ processType_apply
    \/ processType_end
    \/ computeSizeMetrics_return

Spec == Init /\ [][Next]_vars

\* ================================================================ claims
\* the occurrences of one direction, in harvest order
Occurrences(t) ==
    [k \in 1..Len(Filtered(array, t)) |-> [type |-> t, item |-> Filtered(array, t)[k]]]

\* every occurrence: the responses in harvest order, then the requests
HarvestOrder == Occurrences("res") \o Occurrences("req")

Returned == pc \in {"metrics", "done"}

HasEndpoint(group, it) ==
    \E k \in 1..Len(group.endpoints) : group.endpoints[k] = Endpoint(it)

HasTag(group, t) ==
    \E k \in 1..Len(group.message_type) : group.message_type[k] = t

\* C1: in every state of a groupBySchema run no group lists the same
\* (path, method, code) twice among its endpoints, and no group lists the
\* same direction twice in message_type.
C1_NoDuplicates ==
    \A g \in 1..Len(grouped) :
        /\ \A k, l \in 1..Len(grouped[g].endpoints) :
              (/\ grouped[g].endpoints[k].path = grouped[g].endpoints[l].path
               /\ grouped[g].endpoints[k].method = grouped[g].endpoints[l].method
               /\ grouped[g].endpoints[k].code = grouped[g].endpoints[l].code) => k = l
        /\ \A k, l \in 1..Len(grouped[g].message_type) :
              grouped[g].message_type[k] = grouped[g].message_type[l] => k = l

\* a request occurrence was merged into the group that already held its own
\* (path, method, code) from the response pass: the duplicate test acted
C1_Witness ==
    \E j \in 1..Len(journal) :
        /\ journal[j].outcome = "merged"
        /\ journal[j].type = "req"
        /\ \E i \in 1..(j - 1) :
              /\ journal[i].item = journal[j].item
              /\ journal[i].outcome # "error"
              /\ journal[i].group = journal[j].group

\* C3: occurrences are processed one at a time, every response occurrence
\* in harvest order before any request occurrence in harvest order; when an
\* occurrence is being compared, every occurrence before it has been fully
\* processed and the comparison is made against the whole current group list.
C3_ResponsesThenRequests ==
    /\ Len(journal) <= Len(HarvestOrder)
    /\ \A k \in 1..Len(journal) :
          /\ journal[k].type = HarvestOrder[k].type
          /\ journal[k].item = HarvestOrder[k].item
    /\ pc = "compare" =>
          /\ Len(journal) < Len(HarvestOrder)
          /\ type = HarvestOrder[Len(journal) + 1].type
          /\ items[idx] = HarvestOrder[Len(journal) + 1].item
          /\ Len(comparisons) = Len(grouped)
    /\ Returned => Len(journal) = Len(HarvestOrder)

\* a request occurrence is being compared after response occurrences built groups
C3_Witness ==
    /\ pc = "compare"
    /\ type = "req"
    /\ Len(grouped) >= 1
    /\ \E k \in 1..Len(journal) : journal[k].type = "res"

\* the first group in creation order whose representative is equivalent to frag
FirstEquivalent(groups, frag) ==
    IF \E i \in 1..Len(groups) : compare(groups[i].schema, frag) = "true"
    THEN CHOOSE i \in 1..Len(groups) :
            /\ compare(groups[i].schema, frag) = "true"
            /\ \A j \in 1..(i - 1) : compare(groups[j].schema, frag) # "true"
    ELSE 0

\* the representatives a strictly sequential first-match grouping of occs yields
RECURSIVE Representatives(_, _, _)
Representatives(occs, k, reps) ==
    IF k > Len(occs) THEN reps
    ELSE LET body == array[occs[k].item][occs[k].type][1]
             frag == IF body.items # <<>> THEN body.items[1] ELSE body
         IN  IF \E i \in 1..Len(reps) : compare(reps[i], frag) \in {"true", "throw"}
             THEN Representatives(occs, k + 1, reps)
             ELSE Representatives(occs, k + 1, Append(reps, frag))

\* C4: whatever the order in which the parallel comparisons settle, the
\* group findSimilarSchema yields is the first one in creation order that
\* is equivalent to the fragment; the final group order and representatives
\* are a function of the occurrence list alone.
C4_FirstInCreationOrder ==
    /\ (pc = "compare" /\ Settled(comparisons) /\ ~Rejected(comparisons)) =>
          findSimilarSchema(comparisons, finished)
              = FirstEquivalent(grouped, currentSchema(item, type))
    /\ Returned =>
          [g \in 1..Len(grouped) |-> grouped[g].schema]
              = Representatives(HarvestOrder, 1, <<>>)

\* two comparisons settled against creation order and a group was found
C4_Witness ==
    /\ pc = "compare"
    /\ Settled(comparisons)
    /\ Len(finished) >= 2
    /\ finished[1] > finished[2]
    /\ findSimilarSchema(comparisons, finished) # 0

\* C5: in every state each group's schema is the unwrapped fragment of the
\* occurrence that created the group, whatever was merged into it since.
C5_RepresentativePermanent ==
    \A j \in 1..Len(journal) :
        journal[j].outcome = "added" =>
            /\ journal[j].group <= Len(grouped)
            /\ LET body == array[journal[j].item][journal[j].type][1]
               IN  grouped[journal[j].group].schema
                       = IF body.items # <<>> THEN body.items[1] ELSE body

\* a fragment that differs in its description was merged into a group
C5_Witness ==
    \E j \in 1..Len(journal) :
        /\ journal[j].outcome = "merged"
        /\ currentSchema(array[journal[j].item], journal[j].type)
              # grouped[journal[j].group].schema

\* the fragment of a processed occurrence, as lines 54 and 88 compute it
Fragment(j) ==
    LET body == array[j.item][j.type][1]
    IN  IF body.items # <<>> THEN body.items[1] ELSE body

Kept == {j \in 1..Len(journal) : journal[j].outcome # "error"}

RECURSIVE EndpointSum(_, _)
EndpointSum(g, t) ==
    IF g = 0 THEN 0
    ELSE (IF HasTag(grouped[g], t) THEN Len(grouped[g].endpoints) ELSE 0)
         + EndpointSum(g - 1, t)

RECURSIVE EndpointTotal(_)
EndpointTotal(g) ==
    IF g = 0 THEN 0 ELSE Len(grouped[g].endpoints) + EndpointTotal(g - 1)

\* C2 as stated: on return every occurrence with a schema in a direction is
\* in exactly one group's endpoints under that direction tag, and per
\* direction the endpoint-list sizes of the groups tagged with it add up to
\* the number of occurrences with a schema in that direction.
C2_CoverageAsStated ==
    Returned =>
        \A t \in {"res", "req"} :
            /\ EndpointSum(Len(grouped), t) = Len(Filtered(array, t))
            /\ \A k \in 1..Len(Filtered(array, t)) :
                  Cardinality({g \in 1..Len(grouped) :
                                  /\ HasTag(grouped[g], t)
                                  /\ HasEndpoint(grouped[g], array[Filtered(array, t)[k]])}) = 1

\* C2 amended: on return every occurrence with a schema in a direction has
\* been processed exactly once; unless its lookup threw, its (path, method,
\* code) is in the endpoints of the one group it was merged into or created,
\* and that group carries the direction. Every endpoint entry stems from such
\* an occurrence, so the entries number at most the occurrences kept, and per
\* direction the sizes of the groups tagged with it add up to at least the
\* occurrences of that direction that were kept.
C2_Coverage ==
    Returned =>
        /\ Len(journal) = Len(HarvestOrder)
        /\ \A j \in 1..Len(journal) :
              /\ journal[j].type = HarvestOrder[j].type
              /\ journal[j].item = HarvestOrder[j].item
        /\ \A j \in Kept :
              /\ journal[j].group \in 1..Len(grouped)
              /\ HasEndpoint(grouped[journal[j].group], array[journal[j].item])
              /\ HasTag(grouped[journal[j].group], journal[j].type)
        /\ \A g \in 1..Len(grouped) : \A k \in 1..Len(grouped[g].endpoints) :
              \E j \in Kept :
                  /\ journal[j].group = g
                  /\ Endpoint(array[journal[j].item]) = grouped[g].endpoints[k]
        /\ EndpointTotal(Len(grouped)) <= Cardinality(Kept)
        /\ \A t \in {"res", "req"} :
              Cardinality({j \in Kept : journal[j].type = t}) <= EndpointSum(Len(grouped), t)

\* no lookup threw, and a request occurrence joined a group that a response
\* of another record had created: the per-direction sums are off
C2_Witness ==
    /\ Returned
    /\ Kept = 1..Len(journal)
    /\ EndpointSum(Len(grouped), "res") > Len(Filtered(array, "res"))

\* C6 as stated: a body schema of type array, or one with an items field,
\* is compared and stored as its items sub-schema, any other as itself; so an
\* occurrence returning an array of S shares its group with one returning S.
C6_UnwrapAsStated ==
    /\ \A j \in 1..Len(journal) :
          journal[j].outcome = "added" =>
              LET body == array[journal[j].item][journal[j].type][1]
                  rep == grouped[journal[j].group].schema
              IN  IF body.type = "array" \/ body.items # <<>>
                  THEN body.items = <<rep>>
                  ELSE rep = body
    /\ \A i, j \in Kept :
          LET wrapped == array[journal[i].item][journal[i].type][1]
              plain == array[journal[j].item][journal[j].type][1]
          IN  (wrapped.items # <<>> /\ Strip(wrapped.items[1]) = Strip(plain))
                  => journal[i].group = journal[j].group

\* C6 amended: the fragment is the items sub-schema exactly when the body
\* schema carries an items field, one level only, and the schema itself
\* otherwise, a type-array schema without items included; an occurrence
\* returning an array of S shares its group with one returning S when S
\* itself carries no items and neither lookup threw.
C6_Unwrap ==
    /\ \A j \in 1..Len(journal) :
          journal[j].outcome = "added" =>
              LET body == array[journal[j].item][journal[j].type][1]
                  rep == grouped[journal[j].group].schema
              IN  IF body.items # <<>> THEN body.items = <<rep>> ELSE rep = body
    /\ (pc = "compare" /\ Settled(comparisons)) =>
          LET body == array[items[idx]][type][1]
              frag == IF body.items # <<>> THEN body.items[1] ELSE body
          IN  \A g \in 1..Len(comparisons) :
                  comparisons[g] = compare(grouped[g].schema, frag)
    /\ \A i, j \in Kept :
          LET wrapped == array[journal[i].item][journal[i].type][1]
              plain == array[journal[j].item][journal[j].type][1]
          IN  (/\ wrapped.items # <<>>
               /\ Strip(wrapped.items[1]) = Strip(plain)
               /\ plain.items = <<>>)
                  => journal[i].group = journal[j].group

\* an array of S and S itself were both processed and share one group
C6_Witness ==
    \E i, j \in Kept :
        /\ i # j
        /\ array[journal[i].item][journal[i].type][1].items
              = <<array[journal[j].item][journal[j].type][1]>>
        /\ journal[i].group = journal[j].group

\* C7: a processed request occurrence whose fragment is equivalent to the
\* representative of a group created in the response pass was merged into
\* that group, which carries both directions; merging added no group (there
\* are exactly as many groups as occurrences that created one).
C7_RequestMergesIntoResponseGroup ==
    /\ \A j \in 1..Len(journal) : \A g \in 1..Len(grouped) :
          (/\ journal[j].type = "req"
           /\ grouped[g].message_type[1] = "res"
           /\ compare(grouped[g].schema, Fragment(journal[j])) = "true")
              => /\ journal[j].outcome = "merged"
                 /\ journal[j].group = g
                 /\ HasTag(grouped[g], "res")
                 /\ HasTag(grouped[g], "req")
    /\ Len(grouped) = Cardinality({j \in 1..Len(journal) : journal[j].outcome = "added"})

\* a request occurrence was merged into a group a response had created
C7_Witness ==
    \E j \in 1..Len(journal) :
        /\ journal[j].type = "req"
        /\ journal[j].outcome = "merged"
        /\ grouped[journal[j].group].message_type = <<"res", "req">>

\* C8 as stated: an occurrence one of whose comparisons throws still ends in
\* a group (the first other one that matches, or a new one), and every
\* occurrence is processed.
C8_ThrowAsStated ==
    /\ \A j \in 1..Len(journal) :
          \E g \in 1..Len(grouped) :
              /\ HasEndpoint(grouped[g], array[journal[j].item])
              /\ HasTag(grouped[g], journal[j].type)
              /\ \/ grouped[g].schema = Fragment(journal[j])
                 \/ compare(grouped[g].schema, Fragment(journal[j])) = "true"
    /\ Returned => Len(journal) = Len(HarvestOrder)

\* C8 amended: when a comparison of an occurrence throws, the lookup as a
\* whole fails and the occurrence is dropped: the group list stays as it was
\* and the loop moves on to the next occurrence; every occurrence is
\* processed by the time groupBySchema returns.
C8_ThrowDropsOccurrence ==
    /\ [][(/\ pc = "compare"
           /\ pc' = "loop"
           /\ \E g \in 1..Len(comparisons) : comparisons[g] = "throw")
            => /\ grouped' = grouped
               /\ idx' = idx + 1
               /\ pass' = pass]_vars
    /\ [](Returned => Len(journal) = Len(HarvestOrder))

\* a lookup threw, and an occurrence after it was merged or created a group
C8_Witness ==
    /\ Returned
    /\ \E i, j \in 1..Len(journal) :
          /\ i < j
          /\ journal[i].outcome = "error"
          /\ journal[j].outcome # "error"

\* C9 as stated: for a document without paths extractSchemas yields an
\* empty occurrence list and computeSizeMetrics completes with zero groups.
C9_MissingPathsTolerated ==
    openAPISpec.paths = <<>> =>
        /\ pc # "thrown"
        /\ pc \in {"extracted", "loop", "compare", "metrics", "done"} =>
              /\ extracted # <<>>
              /\ extracted[1].schemas = <<>>
        /\ pc = "done" => result = <<[used_schemas |-> 0]>>

\* C10 as stated: a document with the openapi marker is harvested unchanged
\* and the converter is not called; when the converter fails, the partial
\* output of the error is harvested if there is one, the original input if not.
C10_NormalizationFallback ==
    /\ openAPISpec.openapi => converter = "none"
    /\ (openAPISpec.openapi /\ pc = "harvest") => derefApi = <<openAPISpec>>
    /\ converter = "errPartial" => derefApi = <<Converted(openAPISpec)>>
    /\ converter \in {"errNoPartial", "errNoOptions"} =>
          /\ pc # "convert"
          /\ derefApi = <<openAPISpec>>

\* ================================================ calculateStructureSize
HTTP_METHODS == <<"get", "put", "post", "delete", "options", "head", "patch", "trace">>

\* the values of an operation's parameters member: absent, an empty list,
\* or a list of parameter objects (each stands by its name)
ParameterLists == {<<>>, <<(<<>>)>>, <<(<<"id">>)>>, <<(<<"id", "limit">>)>>}

\* the keys one path item may declare, in order; "parameters" is the
\* path-level parameter list, which is no HTTP method
PathItemKeys == {<<>>, <<"get">>, <<"get", "post">>, <<"parameters", "get">>}

PathItems ==
    UNION { { [k \in 1..Len(ks) |-> [key |-> ks[k], parameters |-> f[k]]] :
                f \in [1..Len(ks) -> ParameterLists] } :
            ks \in PathItemKeys }

RECURSIVE StructurePaths(_)
StructurePaths(n) ==
    IF n = 0 THEN {<<>>}
    ELSE UNION { { Append(ps, [path |-> PathNames[n], entries |-> e]) : e \in PathItems } :
                 ps \in StructurePaths(n - 1) }

\* the documents handed to calculateStructureSize
StructureDocuments ==
    [webhooks : {<<>>, <<(<<"newPet">>)>>},
     paths : {<<>>} \cup UNION { { <<ps>> : ps \in StructurePaths(n) } :
                                 n \in 0..Len(PathNames) }]

IsHttpMethod(key) == \E k \in 1..Len(HTTP_METHODS) : HTTP_METHODS[k] = key

\* lines 128-139: the operations pushed, as <<path, method>> pairs in order
RECURSIVE OperationsOf(_, _)
OperationsOf(path, entries) ==
    IF entries = <<>> THEN <<>>
    ELSE (IF IsHttpMethod(Head(entries).key)
          THEN <<[path |-> path, method |-> Head(entries).key]>> ELSE <<>>)
         \o OperationsOf(path, Tail(entries))

RECURSIVE AllOperations(_)
AllOperations(paths) ==
    IF paths = <<>> THEN <<>>
    ELSE OperationsOf(Head(paths).path, Head(paths).entries) \o AllOperations(Tail(paths))

\* lines 134-136: parameters = parameters.concat(paths[path][method].parameters)
RECURSIVE ParametersOf(_)
ParametersOf(entries) ==
    IF entries = <<>> THEN <<>>
    ELSE (IF IsHttpMethod(Head(entries).key) /\ Head(entries).parameters # <<>>
          THEN Head(entries).parameters[1] ELSE <<>>)
         \o ParametersOf(Tail(entries))

RECURSIVE AllParameters(_)
AllParameters(paths) ==
    IF paths = <<>> THEN <<>>
    ELSE ParametersOf(Head(paths).entries) \o AllParameters(Tail(paths))

calculateStructureSize(api) ==
    LET operations == IF api.paths = <<>> THEN <<>> ELSE AllOperations(api.paths[1])
        parameters == IF api.paths = <<>> THEN <<>> ELSE AllParameters(api.paths[1])
    IN  [paths |-> IF api.paths = <<>> THEN 0 ELSE Len(api.paths[1]),
         operations |-> Len(operations),
         webhooks |-> IF api.webhooks = <<>> THEN 0 ELSE Len(api.webhooks[1]),
         used_methods |-> Cardinality({operations[k].method : k \in 1..Len(operations)}),
         parametered_operations |-> Len(parameters),
         distinct_parameters |-> {parameters[k] : k \in 1..Len(parameters)},
         used_parameters |-> Len(parameters)]

InitStructure ==
    /\ openAPISpec \in StructureDocuments
    /\ pc = "structure"
    /\ converter = "none"
    /\ derefApi = <<>>
    /\ extracted = <<>>
    /\ array = <<>>
    /\ grouped = <<>>
    /\ pass = 1
    /\ idx = 1
    /\ comparisons = <<>>
    /\ finished = <<>>
    /\ journal = <<>>
    /\ result = <<>>

\* line 96: const structureSize = calculateStructureSize(openAPISpec)
calculateStructureSize_call ==
    /\ pc = "structure"
    /\ result' = <<calculateStructureSize(openAPISpec)>>
    /\ pc' = "structured"
    /\ UNCHANGED <<openAPISpec, converter, derefApi, extracted, array, grouped, pass,
                   idx, comparisons, finished, journal>>

NextStructure == calculateStructureSize_call

SpecStructure == InitStructure /\ [][NextStructure]_vars

\* the operations of the document that define a non-empty parameters list
RECURSIVE WithParameters(_)
WithParameters(entries) ==
    IF entries = <<>> THEN 0
    ELSE (IF /\ IsHttpMethod(Head(entries).key)
             /\ Head(entries).parameters # <<>>
             /\ Head(entries).parameters[1] # <<>>
          THEN 1 ELSE 0)
         + WithParameters(Tail(entries))

RECURSIVE AllWithParameters(_)
AllWithParameters(paths) ==
    IF paths = <<>> THEN 0
    ELSE WithParameters(Head(paths).entries) + AllWithParameters(Tail(paths))

\* C11 as stated: parametered_operations is the number of operations with
\* a non-empty parameters list, so it never exceeds operations;
\* used_parameters is the number of parameter objects of all operations.
C11_ParameteredOperations ==
    (pc = "structured" /\ openAPISpec.paths # <<>>) =>
        /\ result[1].parametered_operations = AllWithParameters(openAPISpec.paths[1])
        /\ result[1].parametered_operations <= result[1].operations
        /\ result[1].used_parameters = Len(AllParameters(openAPISpec.paths[1]))

\* ===================================================== order of emission
\* the keys of a responses map, in the order the document declares them
HarvestKeyOrders == {<<>>, <<"200", "404">>, <<"404", "200">>,
                     <<"default", "404", "2XX", "200">>}

\* the method keys of a path item, in the order the document declares them
HarvestMethodOrders == {<<"get">>, <<"get", "post">>, <<"post", "get">>}

\* a responses member: absent, or a map with the keys of one order
HarvestResponses ==
    {<<>>} \cup { <<[i \in 1..Len(ks) |-> [code |-> ks[i], schema |-> <<Obj("A", "d0")>>]]>> :
                  ks \in HarvestKeyOrders }

HarvestMethods ==
    UNION { { [k \in 1..Len(ms) |->
                 [method |-> ms[k], responses |-> f[k], requestBody |-> <<>>]] :
                f \in [1..Len(ms) -> HarvestResponses] } :
            ms \in HarvestMethodOrders }

RECURSIVE HarvestPaths(_)
HarvestPaths(n) ==
    IF n = 0 THEN {<<>>}
    ELSE UNION { { Append(ps, [path |-> PathNames[n], methods |-> m]) :
                     m \in HarvestMethods } :
                 ps \in HarvestPaths(n - 1) }

\* the documents handed to extractSchemas
HarvestDocuments ==
    [openapi : BOOLEAN,
     paths : UNION { { <<ps>> : ps \in HarvestPaths(n) } : n \in 0..Len(PathNames) }]

InitHarvest ==
    /\ openAPISpec \in HarvestDocuments
    /\ pc = "start"
    /\ converter = "none"
    /\ derefApi = <<>>
    /\ extracted = <<>>
    /\ array = <<>>
    /\ grouped = <<>>
    /\ pass = 1
    /\ idx = 1
    /\ comparisons = <<>>
    /\ finished = <<>>
    /\ journal = <<>>
    /\ result = <<>>

NextHarvest ==
    \/ extractSchemas_call
    \/ extractSchemas_convert
    \/ extractSchemas_harvest

SpecHarvest == InitHarvest /\ [][NextHarvest]_vars

Harvested == pc = "extracted" /\ extracted # <<>>

\* what the harvested document declares: every (path, method with a
\* responses map, status code) with its positions in the declared key orders
Declared ==
    LET paths == extracted[1].converted.paths[1]
    IN  UNION { UNION { { [path |-> paths[p].path, method |-> paths[p].methods[m].method,
                           code |-> paths[p].methods[m].responses[1][c].code,
                           p |-> p, m |-> m, c |-> c] :
                            c \in 1..Len(paths[p].methods[m].responses[1]) } :
                        m \in {k \in 1..Len(paths[p].methods) :
                                  paths[p].methods[k].responses # <<>>} } :
                p \in 1..Len(paths) }

\* the paths, then the methods, then the status codes, each as declared
RECURSIVE DeclaredCodes(_, _, _)
DeclaredCodes(path, op, c) ==
    IF op.responses = <<>> THEN <<>>
    ELSE IF c > Len(op.responses[1]) THEN <<>>
    ELSE <<[path |-> path, method |-> op.method, code |-> op.responses[1][c].code]>>
         \o DeclaredCodes(path, op, c + 1)

RECURSIVE DeclaredMethods(_, _)
DeclaredMethods(path, methods) ==
    IF methods = <<>> THEN <<>>
    ELSE DeclaredCodes(path, Head(methods), 1) \o DeclaredMethods(path, Tail(methods))

RECURSIVE DeclaredOrder(_)
DeclaredOrder(paths) ==
    IF paths = <<>> THEN <<>>
    ELSE DeclaredMethods(Head(paths).path, Head(paths).methods) \o DeclaredOrder(Tail(paths))

Emitted ==
    [k \in 1..Len(extracted[1].schemas) |->
        [path |-> extracted[1].schemas[k].path, method |-> extracted[1].schemas[k].method,
         code |-> extracted[1].schemas[k].code]]

\* C12 as stated: one record per (path, method with responses, status
\* code), ordered by path, then method, then status code, each in the order
\* the document declares its keys.
C12_DeclaredOrder ==
    Harvested => Emitted = DeclaredOrder(extracted[1].converted.paths[1])

\* the declared entry a record stems from
Origin(k) ==
    CHOOSE d \in Declared :
        /\ d.path = Emitted[k].path
        /\ d.method = Emitted[k].method
        /\ d.code = Emitted[k].code

\* C12 amended: one record per (path, method with responses, status code),
\* ordered by path and then by method in declared key order, and within one
\* operation by status code in JavaScript's key order: the integer-like
\* codes first, ascending by number, then the other keys as declared.
C12_KeyOrder ==
    Harvested =>
        /\ Len(Emitted) = Cardinality(Declared)
        /\ \A d \in Declared : \E k \in 1..Len(Emitted) :
              /\ d.path = Emitted[k].path
              /\ d.method = Emitted[k].method
              /\ d.code = Emitted[k].code
        /\ \A i, j \in 1..Len(Emitted) :
              i < j =>
                  LET a == Origin(i)
                      b == Origin(j)
                  IN  \/ a.p < b.p
                      \/ a.p = b.p /\ a.m < b.m
                      \/ /\ a.p = b.p
                         /\ a.m = b.m
                         /\ IF a.code \in DOMAIN CodeNum /\ b.code \in DOMAIN CodeNum
                            THEN CodeNum[a.code] < CodeNum[b.code]
                            ELSE IF a.code \notin DOMAIN CodeNum /\ b.code \notin DOMAIN CodeNum
                            THEN a.c < b.c
                            ELSE a.code \in DOMAIN CodeNum

\* a responses map declared as 404 then 200 was harvested, next to an
\* operation declared after another one of the same path
C12_Witness ==
    /\ Harvested
    /\ \E a, b \in Declared :
          a.p = b.p /\ a.m = b.m /\ a.code = "404" /\ b.code = "200" /\ a.c < b.c
    /\ \E a, b \in Declared : a.p = b.p /\ a.m < b.m

\* ==================================================== request occurrences
\* the operations of the grouped document, as <<path, operation>> pairs
GroupedOperations ==
    LET paths == extracted[1].converted.paths[1]
    IN  UNION { { [path |-> paths[p].path, op |-> paths[p].methods[m]] :
                    m \in 1..Len(paths[p].methods) } : p \in 1..Len(paths) }

\* the processed request occurrences of one operation
RequestsOf(o) ==
    {j \in 1..Len(journal) :
        /\ journal[j].type = "req"
        /\ array[journal[j].item].path = o.path
        /\ array[journal[j].item].method = o.op.method}

\* the endpoint entries of one operation in the groups tagged as request
RequestEntries(o) ==
    {<<g, k>> \in (1..Len(grouped)) \X (1..Len(array)) :
        /\ k <= Len(grouped[g].endpoints)
        /\ HasTag(grouped[g], "req")
        /\ grouped[g].endpoints[k].path = o.path
        /\ grouped[g].endpoints[k].method = o.op.method}

\* C13 as stated: an operation with a JSON request body is one request
\* occurrence and contributes exactly one endpoint entry, without status
\* code, to its group, however many status codes it declares, none included.
C13_OneRequestPerOperation ==
    Returned =>
        \A o \in GroupedOperations :
            o.op.requestBody # <<>> =>
                /\ Cardinality(RequestsOf(o)) = 1
                /\ Cardinality(RequestEntries(o)) = 1
                /\ \A e \in RequestEntries(o) :
                      grouped[e[1]].endpoints[e[2]].code
                          \notin {"200", "404", "default", "2XX"}

\* C13 amended: a request occurrence is a harvested response record read
\* again for its request body, so it carries that response's status code and
\* there is one per declared status code: an operation with a JSON request
\* body and n declared status codes is n request occurrences, none when it
\* declares no responses; each one whose lookup did not throw has the entry
\* (path, method, that status code) in the endpoints of its group.
C13_OneRequestPerStatusCode ==
    Returned =>
        \A o \in GroupedOperations :
            LET codes == IF o.op.responses = <<>> THEN {}
                         ELSE {o.op.responses[1][c].code : c \in 1..Len(o.op.responses[1])}
            IN  /\ o.op.requestBody = <<>> => RequestsOf(o) = {}
                /\ o.op.requestBody # <<>> =>
                      /\ Cardinality(RequestsOf(o)) = Cardinality(codes)
                      /\ {array[journal[j].item].code : j \in RequestsOf(o)} = codes
                      /\ \A j \in RequestsOf(o) \cap Kept :
                            \E k \in 1..Len(grouped[journal[j].group].endpoints) :
                                grouped[journal[j].group].endpoints[k]
                                    = [method |-> o.op.method, path |-> o.path,
                                       code |-> array[journal[j].item].code]

\* an operation with a request body and two status codes left two request
\* entries in one group
C13_Witness ==
    /\ Returned
    /\ \E o \in GroupedOperations :
          /\ o.op.requestBody # <<>>
          /\ Cardinality(RequestsOf(o) \cap Kept) = 2
          /\ \E g \in 1..Len(grouped) :
                /\ grouped[g].message_type = <<"req">>
                /\ Len(grouped[g].endpoints) = 2

\* ========================================================= frame of a step
IsPrefix(a, b) == Len(a) <= Len(b) /\ \A k \in 1..Len(a) : a[k] = b[k]

\* C14: a step changes the group list only while an occurrence that has a
\* schema for the direction in hand is processed, and then either extends
\* the endpoints and directions of one existing group (count, order,
\* representatives and all other groups as before) or appends one group
\* with one endpoint and one direction; lists only grow, and no group is
\* ever without an endpoint or without a direction.
C14_OneGroupPerOccurrence ==
    /\ [][/\ Len(grouped') \in {Len(grouped), Len(grouped) + 1}
          /\ \A g \in 1..Len(grouped) :
                /\ grouped'[g].schema = grouped[g].schema
                /\ IsPrefix(grouped[g].endpoints, grouped'[g].endpoints)
                /\ IsPrefix(grouped[g].message_type, grouped'[g].message_type)
                /\ Len(grouped'[g].endpoints) <= Len(grouped[g].endpoints) + 1
                /\ Len(grouped'[g].message_type) <= Len(grouped[g].message_type) + 1
          /\ Cardinality({g \in 1..Len(grouped) : grouped'[g] # grouped[g]})
                <= (IF Len(grouped') = Len(grouped) THEN 1 ELSE 0)
          /\ Len(grouped') = Len(grouped) + 1 =>
                /\ Len(grouped'[Len(grouped') ].endpoints) = 1
                /\ Len(grouped'[Len(grouped')].message_type) = 1
          /\ grouped' # grouped =>
                /\ pc = "compare"
                /\ array[items[idx]][type] # <<>>
                /\ \E g \in 1..Len(grouped') :
                      /\ \A h \in 1..Len(grouped) : h # g => grouped'[h] = grouped[h]
                      /\ \E k \in 1..Len(grouped'[g].endpoints) :
                            /\ grouped'[g].endpoints[k].path = array[items[idx]].path
                            /\ grouped'[g].endpoints[k].method = array[items[idx]].method
                            /\ grouped'[g].endpoints[k].code = array[items[idx]].code
                      /\ \E k \in 1..Len(grouped'[g].message_type) :
                            grouped'[g].message_type[k] = type]_vars
    /\ [](\A g \in 1..Len(grouped) :
              Len(grouped[g].endpoints) >= 1 /\ Len(grouped[g].message_type) >= 1)
    /\ [](\A j \in 1..Len(journal) : array[journal[j].item][journal[j].type] # <<>>)

\* a run that created two groups, merged an occurrence into one of them and
\* passed over a record without a request body
C14_Witness ==
    /\ Returned
    /\ Len(grouped) >= 2
    /\ \E j \in 1..Len(journal) : journal[j].outcome = "merged"
    /\ \E i \in 1..Len(array) : array[i].req = <<>>

\* ================================================ distinct representatives
\* C15: in every state of a groupBySchema run the representatives of two
\* distinct groups are not equivalent under the comparator, taken in either
\* order (the comparator of the model is symmetric; a lookup in which a
\* comparison throws creates no group).
C15_RepresentativesDistinct ==
    \A g, h \in 1..Len(grouped) :
        g # h => compare(grouped[g].schema, grouped[h].schema) # "true"

\* no comparison threw so far, two groups exist, and an occurrence found
\* its group instead of creating one
C15_Witness ==
    /\ Kept = 1..Len(journal)
    /\ Len(grouped) >= 2
    /\ \E j \in 1..Len(journal) : journal[j].outcome = "merged"
====
